---- MODULE Spec2Model ----
(***************************************************************************)
(* CyberDNA simulation (src/cyberdna1.py): a Streamlit script that is      *)
(* re-run by its host.  Each run renders the Start and Reset controls,     *)
(* and, while the simulation is running, executes one monitoring cycle:    *)
(* generate a sample, detect anomalies, display them, run the scripted     *)
(* threat response when the report is non-empty, increment the cycle       *)
(* counter and ask the host for a re-run.                                  *)
(*                                                                         *)
(* Host behaviour the script relies on: a click on a control is queued     *)
(* for the session; a run that is in progress is abandoned at its next     *)
(* st.* call when a click is queued, and the next run sees the clicked     *)
(* control return True; time.sleep and plain Python statements are not     *)
(* interruption points; st.session_state survives across runs.             *)
(*                                                                         *)
(* Texts are modelled without their emoji and markdown decoration.         *)
(***************************************************************************)
EXTENDS Integers, Sequences, FiniteSets, TLC

VARIABLES
    simulation_running,  \* st.session_state.simulation_running
    cycle,               \* st.session_state.cycle
    total_cycles,        \* st.session_state.total_cycles
    pc,                  \* position of the script run ("idle": no run in progress)
    triggers,            \* controls that return True in the run in progress
    pending,             \* clicks queued by the user, not yet delivered to a run
    page,                \* the controls the page shows enabled
    values,              \* local `values` of the run (the sample)
    anomalies,           \* local `anomalies` of the run (the report)
    response,            \* steps written to response_placeholder in this run
    json,                \* records written by st.json in this run
    summary,             \* summary_data shown by this run (None when not shown)
    phases,              \* what the cycle body of this run has done so far
    executed,            \* cycles incremented since the last Start or Reset
    reset_from,          \* <<simulation_running, cycle>> the last Reset handler found,
                         \* kept until the next Start handler
    restarted            \* the last Reset handler found the simulation complete

session == <<simulation_running, cycle, total_cycles>>
locals  == <<values, anomalies, response, json, summary, phases>>
history == <<executed, reset_from, restarted>>
vars    == <<simulation_running, cycle, total_cycles, pc, triggers, pending,
             page, values, anomalies, response, json, summary, phases,
             executed, reset_from, restarted>>

----------------------------------------------------------------------------
(* Bounds of the model *)

\* samples are drawn from the ends of the generator's ranges and from the
\* points within Near of a baseline bound
Near == 1

\* detect_anomalies is probed on the values within Margin of a baseline range
Margin == 2

----------------------------------------------------------------------------
(* Data *)

baseline ==
    [cpu_usage        |-> <<10, 15>>,
     network_activity |-> <<20, 40>>,
     file_access_rate |-> <<0, 3>>]

Metrics == DOMAIN baseline

None == [k \in {} |-> 0]

Digits == <<"0", "1", "2", "3", "4", "5", "6", "7", "8", "9">>

\* str(n) as Python formats an int inside an f-string, one character per element
RECURSIVE str(_)
str(n) ==
    IF n < 0 THEN <<"-">> \o str(0 - n)
    ELSE IF n < 10 THEN <<Digits[n + 1]>>
    ELSE str(n \div 10) \o <<Digits[(n % 10) + 1]>>

\* f"{low}-{high}"
expected_range(low, high) == str(low) \o <<"-">> \o str(high)

\* the outcomes of random.randint(a, b) kept by the model: both ends, and the
\* values within Near of any baseline bound
randint(a, b) ==
    {x \in a..b :
        \/ x = a
        \/ x = b
        \/ \E k \in Metrics : \E i \in 1..2 :
              x \in (baseline[k][i] - Near)..(baseline[k][i] + Near)}

\* simulate_behavior with the final-cycle test one cycle late
simulate_behavior_late(c, total) ==
    IF c = total
    THEN {[cpu_usage |-> 12, network_activity |-> 30, file_access_rate |-> 1]}
    ELSE [cpu_usage        : randint(5, 45),
          network_activity : randint(10, 50),
          file_access_rate : randint(0, 7)]

\* simulate_behavior with upper ends of the ranges one too large
simulate_behavior_wide(c, total) ==
    IF c = total - 1
    THEN {[cpu_usage |-> 12, network_activity |-> 30, file_access_rate |-> 1]}
    ELSE [cpu_usage        : randint(5, 46),
          network_activity : randint(10, 51),
          file_access_rate : randint(0, 8)]

\* the samples simulate_behavior(cycle, total) can return
simulate_behavior(c, total) ==
    IF c = total - 1
    THEN {[cpu_usage |-> 12, network_activity |-> 30, file_access_rate |-> 1]}
    ELSE [cpu_usage        : randint(5, 45),
          network_activity : randint(10, 50),
          file_access_rate : randint(0, 7)]

\* detect_anomalies with a strict lower comparison
detect_anomalies_strict(vals) ==
    [k \in {m \in Metrics :
              ~(baseline[m][1] < vals[m] /\ vals[m] <= baseline[m][2])}
       |-> [value          |-> vals[k],
            expected_range |-> expected_range(baseline[k][1], baseline[k][2])]]

detect_anomalies(vals) ==
    [k \in {m \in Metrics :
              ~(baseline[m][1] <= vals[m] /\ vals[m] <= baseline[m][2])}
       |-> [value          |-> vals[k],
            expected_range |-> expected_range(baseline[k][1], baseline[k][2])]]

response_steps ==
    <<"Analyzing threat patterns...",
      "Isolating affected systems...",
      "Rolling back malicious changes...",
      "System healed and secured!">>

\* response_element with every step written as a warning
response_element_all_warnings(i) ==
    [kind |-> IF i <= Len(response_steps) THEN "warning" ELSE "success",
     text |-> response_steps[i]]

\* the element show_threat_response writes for step i
response_element(i) ==
    [kind |-> IF i < Len(response_steps) THEN "warning" ELSE "success",
     text |-> response_steps[i]]

\* detail_record with the 0-based cycle index
detail_record_zero_based(c, vals, anoms) ==
    [cycle     |-> c,
     metrics   |-> vals,
     anomalies |-> IF anoms # None
                   THEN [report |-> anoms]
                   ELSE [text |-> "None detected"]]

\* the argument of st.json, without its wall-clock timestamp field
detail_record(c, vals, anoms) ==
    [cycle     |-> c + 1,
     metrics   |-> vals,
     anomalies |-> IF anoms # None
                   THEN [report |-> anoms]
                   ELSE [text |-> "None detected"]]

\* summary_data of the completion block, its two numeric entries
summary_data(total) ==
    [total_cycles     |-> total,
     threats_detected |-> total - 1]

----------------------------------------------------------------------------
(* The first run of the script on a fresh session, after it has            *)
(* initialised st.session_state: nothing is rendered yet.                  *)

Init ==
    /\ simulation_running = FALSE
    /\ cycle = 0
    /\ total_cycles = 3
    /\ pc = "start_button"
    /\ triggers = {}
    /\ pending = {}
    /\ page = {}
    /\ values = None
    /\ anomalies = None
    /\ response = <<>>
    /\ json = <<>>
    /\ summary = None
    /\ phases = <<>>
    /\ executed = <<>>
    /\ reset_from = <<>>
    /\ restarted = FALSE

----------------------------------------------------------------------------
(* The host *)

\* a new run of the script starts: the queued clicks are delivered to it and
\* the locals of the previous run are gone
NewRun ==
    /\ pc' = "start_button"
    /\ triggers' = pending
    /\ pending' = {}
    /\ values' = None
    /\ anomalies' = None
    /\ response' = <<>>
    /\ json' = <<>>
    /\ summary' = None
    /\ phases' = <<>>

\* an st.* call of a run reached while a click is queued: the run is abandoned
\* there and the script starts over; session state keeps what the run wrote
Interrupted ==
    /\ NewRun
    /\ UNCHANGED <<session, page, history>>

\* the user clicks Start, which the page shows enabled
ClickStart ==
    /\ "start" \in page
    /\ "start" \notin pending
    /\ pending' = pending \cup {"start"}
    /\ UNCHANGED <<session, pc, triggers, page, locals, history>>

\* the user clicks Reset (never disabled once rendered)
ClickReset ==
    /\ "reset" \in page
    /\ "reset" \notin pending
    /\ pending' = pending \cup {"reset"}
    /\ UNCHANGED <<session, pc, triggers, page, locals, history>>

\* no run in progress and a click is queued: the host runs the script
RunOnClick ==
    /\ pc = "idle"
    /\ pending # {}
    /\ NewRun
    /\ UNCHANGED <<session, page, history>>

\* st.rerun(): the run ends and the host runs the script again
Rerun ==
    /\ pc = "rerun"
    /\ NewRun
    /\ UNCHANGED <<session, page, history>>

----------------------------------------------------------------------------
(* run_simulation, one action per stretch between interruption points *)

\* StartButton rendered enabled whatever simulation_running is
StartButton_always_enabled ==
    /\ pc = "start_button"
    /\ IF pending # {}
       THEN Interrupted
       ELSE
          /\ page' = page \cup {"start"}
          /\ IF "start" \in triggers
             THEN /\ simulation_running' = TRUE
                  /\ cycle' = 0
                  /\ executed' = <<>>
                  /\ reset_from' = <<>>
             ELSE UNCHANGED <<simulation_running, cycle, executed, reset_from>>
          /\ pc' = "reset_button"
          /\ UNCHANGED <<total_cycles, triggers, pending, locals, restarted>>

\* the Start control: rendered with disabled = simulation_running, and its
\* handler when it returns True
StartButton ==
    /\ pc = "start_button"
    /\ IF pending # {}
       THEN Interrupted
       ELSE
          /\ page' = IF simulation_running
                     THEN page \ {"start"}
                     ELSE page \cup {"start"}
          /\ IF "start" \in triggers
             THEN /\ simulation_running' = TRUE
                  /\ cycle' = 0
                  /\ executed' = <<>>
                  /\ reset_from' = <<>>
             ELSE UNCHANGED <<simulation_running, cycle, executed, reset_from>>
          /\ pc' = "reset_button"
          /\ UNCHANGED <<total_cycles, triggers, pending, locals, restarted>>

\* ResetButton with a handler that leaves the cycle counter alone
ResetButton_keeps_cycle ==
    /\ pc = "reset_button"
    /\ IF pending # {}
       THEN Interrupted
       ELSE
          /\ IF "reset" \in triggers
             THEN /\ simulation_running' = FALSE
                  /\ cycle' = cycle
                  /\ executed' = <<>>
                  /\ reset_from' = <<simulation_running, cycle>>
                  /\ restarted' = (~simulation_running /\ cycle = total_cycles)
                  /\ pc' = "rerun"
             ELSE /\ pc' = "dispatch"
                  /\ UNCHANGED <<simulation_running, cycle, executed,
                                 reset_from, restarted>>
          /\ page' = page \cup {"reset"}
          /\ UNCHANGED <<total_cycles, triggers, pending, locals>>

\* ResetButton with a handler that leaves simulation_running alone
ResetButton_keeps_running ==
    /\ pc = "reset_button"
    /\ IF pending # {}
       THEN Interrupted
       ELSE
          /\ IF "reset" \in triggers
             THEN /\ simulation_running' = simulation_running
                  /\ cycle' = 0
                  /\ executed' = <<>>
                  /\ reset_from' = <<simulation_running, cycle>>
                  /\ restarted' = (~simulation_running /\ cycle = total_cycles)
                  /\ pc' = "rerun"
             ELSE /\ pc' = "dispatch"
                  /\ UNCHANGED <<simulation_running, cycle, executed,
                                 reset_from, restarted>>
          /\ page' = page \cup {"reset"}
          /\ UNCHANGED <<total_cycles, triggers, pending, locals>>

\* ResetButton with a handler that also clears total_cycles
ResetButton_clears_total ==
    /\ pc = "reset_button"
    /\ IF pending # {}
       THEN Interrupted
       ELSE
          /\ IF "reset" \in triggers
             THEN /\ simulation_running' = FALSE
                  /\ cycle' = 0
                  /\ total_cycles' = 0
                  /\ executed' = <<>>
                  /\ reset_from' = <<simulation_running, cycle>>
                  /\ restarted' = (~simulation_running /\ cycle = total_cycles)
                  /\ pc' = "rerun"
             ELSE /\ pc' = "dispatch"
                  /\ UNCHANGED <<simulation_running, cycle, total_cycles,
                                 executed, reset_from, restarted>>
          /\ page' = page \cup {"reset"}
          /\ UNCHANGED <<triggers, pending, locals>>

\* the Reset control and its handler, which ends in st.rerun()
ResetButton ==
    /\ pc = "reset_button"
    /\ IF pending # {}
       THEN Interrupted
       ELSE
          /\ IF "reset" \in triggers
             THEN /\ simulation_running' = FALSE
                  /\ cycle' = 0
                  /\ executed' = <<>>
                  /\ reset_from' = <<simulation_running, cycle>>
                  /\ restarted' = (~simulation_running /\ cycle = total_cycles)
                  /\ pc' = "rerun"
             ELSE /\ pc' = "dispatch"
                  /\ UNCHANGED <<simulation_running, cycle, executed,
                                 reset_from, restarted>>
          /\ page' = page \cup {"reset"}
          /\ UNCHANGED <<total_cycles, triggers, pending, locals>>

\* Dispatch with <= in place of < in the cycle test
Dispatch_inclusive ==
    /\ pc = "dispatch"
    /\ pc' = IF simulation_running
             THEN IF cycle <= total_cycles THEN "generate" ELSE "complete"
             ELSE "about"
    /\ UNCHANGED <<session, triggers, pending, page, locals, history>>

\* the branch on simulation_running and on cycle < total_cycles
Dispatch ==
    /\ pc = "dispatch"
    /\ pc' = IF simulation_running
             THEN IF cycle < total_cycles THEN "generate" ELSE "complete"
             ELSE "about"
    /\ UNCHANGED <<session, triggers, pending, page, locals, executed,
                   reset_from, restarted>>

\* the About page and the baseline table; the run ends
About ==
    /\ pc = "about"
    /\ IF pending # {}
       THEN Interrupted
       ELSE
          /\ pc' = "idle"
          /\ UNCHANGED <<session, triggers, pending, page, locals,
                         executed, reset_from, restarted>>

\* the cycle heading, then values = simulate_behavior(cycle, total_cycles)
Generate ==
    /\ pc = "generate"
    /\ IF pending # {}
       THEN Interrupted
       ELSE
          /\ \E v \in simulate_behavior(cycle, total_cycles) : values' = v
          /\ phases' = Append(phases, "generate")
          /\ pc' = "detect"
          /\ UNCHANGED <<session, triggers, pending, page, anomalies,
                         response, json, summary, executed, reset_from,
                         restarted>>

\* anomalies = detect_anomalies(values)
Detect ==
    /\ pc = "detect"
    /\ anomalies' = detect_anomalies(values)
    /\ phases' = Append(phases, "detect")
    /\ pc' = "display"
    /\ UNCHANGED <<session, triggers, pending, page, values, response,
                   json, summary, executed, reset_from, restarted>>

\* Display followed by the increment even when the report is non-empty
Display_no_response ==
    /\ pc = "display"
    /\ IF pending # {}
       THEN Interrupted
       ELSE
          /\ json' = Append(json, detail_record(cycle, values, anomalies))
          /\ phases' = Append(phases, "display")
          /\ pc' = "advance"
          /\ UNCHANGED <<session, triggers, pending, page, values,
                         anomalies, response, summary, executed,
                         reset_from, restarted>>

\* Display with the test of the report inverted
Display_inverted ==
    /\ pc = "display"
    /\ IF pending # {}
       THEN Interrupted
       ELSE
          /\ json' = Append(json, detail_record(cycle, values, anomalies))
          /\ phases' = Append(phases, "display")
          /\ pc' = IF anomalies = None THEN "respond" ELSE "advance"
          /\ UNCHANGED <<session, triggers, pending, page, values,
                         anomalies, response, summary, executed,
                         reset_from, restarted>>

\* display_metrics and display_anomalies (status texts derived from values
\* and anomalies, no state of their own) and the st.json record
Display ==
    /\ pc = "display"
    /\ IF pending # {}
       THEN Interrupted
       ELSE
          /\ json' = Append(json, detail_record(cycle, values, anomalies))
          /\ phases' = Append(phases, "display")
          /\ pc' = IF anomalies # None THEN "respond" ELSE "advance"
          /\ UNCHANGED <<session, triggers, pending, page, values,
                         anomalies, response, summary, executed,
                         reset_from, restarted>>

\* show_threat_response: one iteration of its loop per step
Respond ==
    /\ pc = "respond"
    /\ IF pending # {}
       THEN Interrupted
       ELSE
          /\ response' = Append(response, response_element(Len(response) + 1))
          /\ phases' = Append(phases, "respond")
          /\ pc' = IF Len(response) + 1 < Len(response_steps)
                   THEN "respond" ELSE "advance"
          /\ UNCHANGED <<session, triggers, pending, page, values,
                         anomalies, json, summary, executed, reset_from,
                         restarted>>

\* Advance with the counter stepping by two
Advance_by_two ==
    /\ pc = "advance"
    /\ cycle' = cycle + 2
    /\ phases' = Append(phases, "increment")
    /\ executed' = Append(executed, [cycle |-> cycle, clean |-> anomalies = None])
    /\ pc' = "rerun"
    /\ UNCHANGED <<simulation_running, total_cycles, triggers, pending,
                   page, values, anomalies, response, json, summary,
                   reset_from, restarted>>

\* the sleeps that end the cycle and st.session_state.cycle += 1
Advance ==
    /\ pc = "advance"
    /\ cycle' = cycle + 1
    /\ phases' = Append(phases, "increment")
    /\ executed' = Append(executed, [cycle |-> cycle, clean |-> anomalies = None])
    /\ pc' = "rerun"
    /\ UNCHANGED <<simulation_running, total_cycles, triggers, pending,
                   page, values, anomalies, response, json, summary,
                   reset_from, restarted>>

\* Complete without the assignment simulation_running = False
Complete_stays_running ==
    /\ pc = "complete"
    /\ IF pending # {}
       THEN Interrupted
       ELSE
          /\ simulation_running' = simulation_running
          /\ summary' = summary_data(total_cycles)
          /\ phases' = Append(phases, "complete")
          /\ pc' = "idle"
          /\ UNCHANGED <<cycle, total_cycles, triggers, pending, page,
                         values, anomalies, response, json, executed,
                         reset_from, restarted>>

\* the completion message and summary; simulation_running = False; the run ends
Complete ==
    /\ pc = "complete"
    /\ IF pending # {}
       THEN Interrupted
       ELSE
          /\ simulation_running' = FALSE
          /\ summary' = summary_data(total_cycles)
          /\ phases' = Append(phases, "complete")
          /\ pc' = "idle"
          /\ UNCHANGED <<cycle, total_cycles, triggers, pending, page,
                         values, anomalies, response, json, executed,
                         reset_from, restarted>>

Script ==
    \/ RunOnClick
    \/ Rerun
    \/ StartButton
    \/ ResetButton
    \/ Dispatch
    \/ About
    \/ Generate
    \/ Detect
    \/ Display
    \/ Respond
    \/ Advance
    \/ Complete

Next ==
    \/ ClickStart
    \/ ClickReset
    \/ Script

Spec == Init /\ [][Next]_vars

TypeOK ==
    /\ simulation_running \in BOOLEAN
    /\ cycle \in 0..total_cycles
    /\ pending \subseteq {"start", "reset"}
    /\ triggers \subseteq {"start", "reset"}

----------------------------------------------------------------------------
(* An unattended run: the user presses Start once the page is idle and     *)
(* then leaves the page alone.  The script's steps are sequential code     *)
(* with finite sleeps and the host always honours st.rerun() and a click,  *)
(* so a step that is enabled is eventually taken.                          *)

ClickStartIdle ==
    /\ pc = "idle"
    /\ pending = {}
    /\ ClickStart

NextUnattended ==
    \/ ClickStartIdle
    \/ Script

SpecUnattended == Init /\ [][NextUnattended]_vars /\ WF_vars(Script)

----------------------------------------------------------------------------
(* detect_anomalies on its own: the run stands right before line 144 with  *)
(* an arbitrary sample within Margin of the baseline ranges.               *)

ProbeSamples ==
    [cpu_usage        : (baseline.cpu_usage[1] - Margin)..(baseline.cpu_usage[2] + Margin),
     network_activity : (baseline.network_activity[1] - Margin)..(baseline.network_activity[2] + Margin),
     file_access_rate : (baseline.file_access_rate[1] - Margin)..(baseline.file_access_rate[2] + Margin)]

InitDetect ==
    /\ simulation_running = TRUE
    /\ cycle = 0
    /\ total_cycles = 3
    /\ pc = "detect"
    /\ triggers = {"start"}
    /\ pending = {}
    /\ page = {"start", "reset"}
    /\ values \in ProbeSamples
    /\ anomalies = None
    /\ response = <<>>
    /\ json = <<>>
    /\ summary = None
    /\ phases = <<"generate">>
    /\ executed = <<>>
    /\ reset_from = <<>>
    /\ restarted = FALSE

NextDetect == Detect

SpecDetect == InitDetect /\ [][NextDetect]_vars

----------------------------------------------------------------------------
(* Vocabulary of the properties *)

\* the cycle body of the run in progress, before its increment
InBody == pc \in {"generate", "detect", "display", "respond", "advance"}

\* the run in progress has got its sample / its report / written its record
Sampled  == pc \in {"detect", "display", "respond", "advance"}
Detected == pc \in {"display", "respond", "advance"}
Shown    == pc \in {"respond", "advance"}

\* the run has just performed the increment of its cycle
Incremented == pc = "rerun" /\ phases # <<>>

\* the run that has just ended was the completing one
Completed == pc = "idle" /\ phases = <<"complete">>

CpuText  == <<"1", "0", "-", "1", "5">>
NetText  == <<"2", "0", "-", "4", "0">>
FileText == <<"0", "-", "3">>

----------------------------------------------------------------------------
(* C1: detect_anomalies reports a metric exactly when its sampled value is *)
(* outside the inclusive baseline range (cpu_usage 10..15,                 *)
(* network_activity 20..40, file_access_rate 0..3): a value equal to low   *)
(* or high is not reported, low-1 and high+1 are reported, and an entry    *)
(* carries the sampled value and the text of the metric's range.           *)
C1_DetectExact ==
    Detected =>
      LET out(v, low, high) == v < low \/ v > high
          ok(k, low, high, text) ==
            /\ (k \in DOMAIN anomalies) <=> out(values[k], low, high)
            /\ values[k] \in {low, high} => k \notin DOMAIN anomalies
            /\ values[k] \in {low - 1, high + 1} => k \in DOMAIN anomalies
            /\ k \in DOMAIN anomalies =>
                 anomalies[k] = [value |-> values[k], expected_range |-> text]
      IN /\ DOMAIN anomalies \subseteq
              {"cpu_usage", "network_activity", "file_access_rate"}
         /\ ok("cpu_usage", 10, 15, CpuText)
         /\ ok("network_activity", 20, 40, NetText)
         /\ ok("file_access_rate", 0, 3, FileText)

\* a sample with one metric just below, one at its upper bound, one just above
C1_Witness ==
    /\ Detected
    /\ values = [cpu_usage |-> 9, network_activity |-> 40, file_access_rate |-> 4]
    /\ DOMAIN anomalies = {"cpu_usage", "file_access_rate"}
    /\ anomalies["file_access_rate"].value = 4

(* C2: the sample of the final cycle (cycle = total_cycles - 1) is within  *)
(* the baseline for all three metrics, its report is empty and no response *)
(* step is emitted in that cycle.                                          *)
C2_FinalCycleClean ==
    /\ (InBody /\ cycle = total_cycles - 1) =>
         /\ Sampled =>
              /\ values.cpu_usage \in 10..15
              /\ values.network_activity \in 20..40
              /\ values.file_access_rate \in 0..3
         /\ Detected => anomalies = None
         /\ pc # "respond"
         /\ response = <<>>
    /\ \A i \in DOMAIN executed :
         executed[i].cycle = total_cycles - 1 => executed[i].clean

C2_Witness ==
    /\ pc = "advance"
    /\ cycle = total_cycles - 1
    /\ values = [cpu_usage |-> 12, network_activity |-> 30, file_access_rate |-> 1]
    /\ anomalies = None
    /\ response = <<>>

(* C3: an unattended run with total_cycles = 3 executes exactly the cycles *)
(* 0, 1, 2, in that order and once each; the third is always clean.        *)
C3_ThreeCycles ==
    /\ Len(executed) <= 3
    /\ \A i \in DOMAIN executed : executed[i].cycle = i - 1
    /\ Completed =>
         /\ total_cycles = 3
         /\ Len(executed) = 3
         /\ executed[3].clean

\* a completed run whose first cycle reported anomalies and whose second did not
C3_Witness ==
    /\ Completed
    /\ Len(executed) = 3
    /\ ~executed[1].clean
    /\ executed[2].clean
    /\ executed[3].clean

(* C4: the Reset handler, whatever state it finds, leaves                  *)
(* simulation_running false and cycle 0 and does not touch total_cycles.   *)
ResetTaken == pc = "reset_button" /\ "reset" \in triggers /\ pc' = "rerun"

C4_ResetEffect ==
    [][ResetTaken =>
         /\ simulation_running' = FALSE
         /\ cycle' = 0
         /\ total_cycles' = total_cycles]_vars

\* Reset has acted on a run that had already incremented past its first cycle
C4_Witness ==
    /\ pc = "rerun"
    /\ reset_from = <<TRUE, 2>>
    /\ simulation_running = FALSE
    /\ cycle = 0
    /\ total_cycles = 3

(* C5: the completion step is reached only while running with              *)
(* cycle = total_cycles, and a cycle body executes only while running with *)
(* cycle < total_cycles.                                                   *)
C5_CompleteOnlyAtTotal ==
    /\ pc = "complete" => (simulation_running /\ cycle = total_cycles)
    /\ Completed => cycle = total_cycles
    /\ InBody => (simulation_running /\ cycle < total_cycles)
    /\ Incremented => (simulation_running /\ cycle <= total_cycles)

C5_Witness ==
    /\ Completed
    /\ ~simulation_running
    /\ cycle = total_cycles
    /\ Len(executed) = 3

(* C6: the response sequencer writes the four fixed steps in their fixed   *)
(* order, the first three as warnings and the fourth as a success, and     *)
(* writes the same sequence whatever the anomaly report holds.             *)
ResponseScript ==
    <<[kind |-> "warning", text |-> "Analyzing threat patterns..."],
      [kind |-> "warning", text |-> "Isolating affected systems..."],
      [kind |-> "warning", text |-> "Rolling back malicious changes..."],
      [kind |-> "success", text |-> "System healed and secured!"]>>

C6_FixedResponse ==
    /\ Len(response) <= 4
    /\ response = SubSeq(ResponseScript, 1, Len(response))
    /\ (pc = "respond") => Len(response) < 4
    /\ (anomalies # None /\ (pc = "advance" \/ Incremented)) =>
          response = ResponseScript

\* the whole sequence written for a report that holds all three metrics
C6_Witness ==
    /\ pc = "advance"
    /\ DOMAIN anomalies = Metrics
    /\ response = ResponseScript

(* C7: a cycle that runs to its increment has written exactly one record;  *)
(* its cycle field is the cycle index plus one (within 1..total_cycles),   *)
(* its metrics field is the sample of the cycle, and its anomalies field   *)
(* is the text "None detected" exactly when the report is empty and the    *)
(* report otherwise.                                                       *)
C7_OneRecord ==
    /\ Len(json) <= 1
    /\ (InBody /\ ~Shown) => json = <<>>
    /\ (Shown \/ Incremented) =>
         /\ Len(json) = 1
         /\ json[1].cycle = (IF Incremented THEN cycle ELSE cycle + 1)
         /\ json[1].cycle \in 1..total_cycles
         /\ json[1].metrics = values
         /\ (json[1].anomalies = [text |-> "None detected"]) <=> (anomalies = None)
         /\ (anomalies # None) => json[1].anomalies = [report |-> anomalies]

\* the record of the second cycle with a report on network_activity only
C7_Witness ==
    /\ Incremented
    /\ cycle = 2
    /\ Len(json) = 1
    /\ json[1].cycle = 2
    /\ DOMAIN anomalies = {"network_activity"}
    /\ json[1].anomalies = [report |-> anomalies]

(* C8: a sample generated on a cycle other than the last has cpu_usage in  *)
(* 5..45, network_activity in 10..50 and file_access_rate in 0..7, and no  *)
(* sample ever holds a value outside these ranges.                         *)
C8_WideRange ==
    values # None =>
      /\ values.cpu_usage \in 5..45
      /\ values.network_activity \in 10..50
      /\ values.file_access_rate \in 0..7

\* a non-final sample at the ends of the three ranges
C8_Witness ==
    /\ Sampled
    /\ cycle < total_cycles - 1
    /\ values = [cpu_usage |-> 45, network_activity |-> 10, file_access_rate |-> 7]

(* C9: once Start has been pressed and the user does nothing more, the     *)
(* simulation eventually completes with cycle = total_cycles and           *)
(* simulation_running false.                                               *)
C9_EventuallyComplete ==
    ("start" \in pending) ~>
        (Completed /\ cycle = total_cycles /\ ~simulation_running)

C9_Witness ==
    /\ Completed
    /\ "start" \notin page
    /\ cycle = total_cycles
    /\ ~simulation_running
    /\ Len(executed) = total_cycles

(* C10: whenever the cycle counter advances it advances by exactly one,    *)
(* and only after the run has generated the sample, detected the           *)
(* anomalies and, when the report is non-empty, written all four response  *)
(* steps; within a run the order is generate, detect, respond, increment.  *)
PhaseOrder(n) ==
    <<"generate", "detect", "display">>
      \o [i \in 1..n |-> "respond"] \o <<"increment">>

C10_Ordered ==
    \/ phases = <<"complete">>
    \/ \E n \in {0, 4} : \E m \in 0..Len(PhaseOrder(n)) :
          phases = SubSeq(PhaseOrder(n), 1, m)

OutOfRange ==
    \/ values.cpu_usage < 10 \/ values.cpu_usage > 15
    \/ values.network_activity < 20 \/ values.network_activity > 40
    \/ values.file_access_rate < 0 \/ values.file_access_rate > 3

C11_ResponseIffAnomalies ==
    /\ pc = "respond" => (anomalies # None /\ OutOfRange)
    /\ response # <<>> => anomalies # None
    /\ (pc = "advance" \/ Incremented) =>
         /\ OutOfRange <=> (response # <<>>)
         /\ OutOfRange => Len(response) = Len(response_steps)
         /\ (anomalies = None) <=> (response = <<>>)

\* a cycle with every metric at a bound of its range: incremented, no step
C11_Witness ==
    /\ Incremented
    /\ values = [cpu_usage |-> 15, network_activity |-> 20, file_access_rate |-> 3]
    /\ response = <<>>
    /\ cycle = 1

(* C12: once the Reset handler has run on a simulation that was running,   *)
(* simulation_running is false and cycle is 0 and they stay so until the   *)
(* Start handler runs: no increment of the abandoned cycle shows up        *)
(* afterwards and no cycle body executes.                                  *)
StartTaken ==
    pc = "start_button" /\ "start" \in triggers /\ pc' = "reset_button"

C12_Quiet ==
    reset_from # <<>> =>
      /\ ~simulation_running
      /\ cycle = 0
      /\ executed = <<>>
      /\ ~InBody
      /\ pc # "complete"

C13_CompletedPage ==
    /\ pc = "complete" => "start" \notin page
    /\ Completed =>
         /\ page = {"reset"}
         /\ "start" \notin pending
         /\ ~simulation_running
         /\ Len(executed) = total_cycles
         /\ \A i \in DOMAIN executed : executed[i].cycle = i - 1

C13_OnlyReset ==
    /\ []C13_CompletedPage
    /\ [][Completed =>
            /\ session' = session
            /\ Completed' \/ triggers' = {"reset"}]_vars
    /\ [][StartTaken =>
            /\ simulation_running'
            /\ cycle' = 0
            /\ executed' = <<>>]_vars

\* a second completion, of a simulation started after a Reset of a completed one
C13_Witness ==
    /\ Completed
    /\ restarted
    /\ Len(executed) = 3
    /\ "start" \notin page

(* C14: the run state is always Idle (not running, cycle 0), Running       *)
(* (running, cycle in 0..total_cycles-1) or Complete (cycle =              *)
(* total_cycles); so 0 <= cycle <= total_cycles, and cycle is 0 or         *)
(* total_cycles whenever simulation_running is false.                      *)
C14_DesignStates ==
    /\ total_cycles = 3
    /\ cycle \in 0..total_cycles
    /\ \/ ~simulation_running /\ cycle = 0
       \/ simulation_running /\ cycle \in 0..(total_cycles - 1)
       \/ cycle = total_cycles
    /\ ~simulation_running => cycle \in {0, total_cycles}

\* running with the counter already at total_cycles: the last increment is
\* done and the completing run has not yet cleared simulation_running
C14_Witness ==
    /\ simulation_running
    /\ cycle = total_cycles
    /\ pc = "complete"

(* C15: no step changes total_cycles, which stays 3; the ranges the        *)
(* detector reports stay those of the baseline; and the steps of sample    *)
(* generation and anomaly detection leave simulation_running and cycle     *)
(* unchanged.                                                              *)
C15_Ranges ==
    /\ total_cycles = 3
    /\ baseline = [cpu_usage        |-> <<10, 15>>,
                   network_activity |-> <<20, 40>>,
                   file_access_rate |-> <<0, 3>>]
    /\ \A k \in DOMAIN anomalies :
         anomalies[k].expected_range =
            (IF k = "cpu_usage" THEN CpuText
             ELSE IF k = "network_activity" THEN NetText ELSE FileText)

C15_Frame ==
    /\ []C15_Ranges
    /\ [][total_cycles' = total_cycles]_vars
    /\ [][(pc = "generate" \/ pc = "detect") =>
            /\ simulation_running' = simulation_running
            /\ cycle' = cycle]_vars

\* the second cycle of a simulation started after a Reset, right after detection
C15_Witness ==
    /\ pc = "display"
    /\ restarted
    /\ cycle = 1
    /\ simulation_running
    /\ total_cycles = 3
    /\ DOMAIN anomalies = Metrics

(* C16: the Start handler takes effect only when the simulation is not     *)
(* running, so while it is running the cycle counter never decreases and   *)
(* never returns to 0.                                                     *)
C16_StartOnlyWhenIdle ==
    /\ [][StartTaken => ~simulation_running]_vars
    /\ [][(simulation_running /\ simulation_running') => cycle' >= cycle]_vars

(* C17: when the simulation completes, the "Threats Detected" figure of    *)
(* the summary equals the number of cycles of that simulation whose report *)
(* was non-empty.                                                          *)
C17_ThreatsCounted ==
    summary # None =>
      summary.threats_detected =
         Cardinality({i \in DOMAIN executed : ~executed[i].clean})

====
